---------------------------- MODULE Spec2Model ----------------------------
(***************************************************************************)
(* accounts/forms.py: ChangePasswordForm.                                  *)
(*                                                                         *)
(* A string is a sequence of characters, a character a one-character       *)
(* string.  A form is cleaned field by field in declaration order          *)
(* (current_password, new_password, confirm_password); each field's value  *)
(* goes into cleaned_data, its clean_<field> hook runs, and a raised       *)
(* ValidationError puts the messages into errors[field] and takes the      *)
(* field out of cleaned_data again, so that a later hook's                 *)
(* cleaned_data.get(field) yields None.                                    *)
(*                                                                         *)
(* The submitted values are the values as the fields hand them to the      *)
(* hooks (a CharField strips surrounding whitespace first).  The user's    *)
(* password is kept as the raw password whose hash the record stores.      *)
(***************************************************************************)
EXTENDS Integers, Sequences, FiniteSets, TLC

VARIABLES
    user,          \* self.user: first_name, last_name, username, password
    data,          \* the submitted values of the three fields
    cleaned_data,  \* self.cleaned_data: a dict, field name -> string
    errors,        \* self.errors: field name -> list of messages
    pc,            \* the field the cleaning loop is at, or "done"
    runs,          \* number of forms constructed for this submission
    prev           \* outcome of the previous form of the same submission

vars == <<user, data, cleaned_data, errors, pc, runs, prev>>

-----------------------------------------------------------------------------
(* Bounds *)

\* Passwords are built with lengths MinLength - Slack .. MinLength + Slack.
Slack == 1

\* A submission is validated by at most MaxRuns forms.
MaxRuns == 2

-----------------------------------------------------------------------------
(* Characters and the str / re operations the form uses *)

UpperLetters ==
    << "A", "B", "C", "D", "E", "F", "G", "H", "I", "J", "K", "L", "M",
       "N", "O", "P", "Q", "R", "S", "T", "U", "V", "W", "X", "Y", "Z", "É" >>

LowerLetters ==
    << "a", "b", "c", "d", "e", "f", "g", "h", "i", "j", "k", "l", "m",
       "n", "o", "p", "q", "r", "s", "t", "u", "v", "w", "x", "y", "z", "é" >>

\* r'[A-Z]'
ClassAZUpper == { UpperLetters[i] : i \in 1..26 }

\* r'[a-z]'
ClassAZLower == { LowerLetters[i] : i \in 1..26 }

\* r'[0-9]'
ClassDigit == { "0", "1", "2", "3", "4", "5", "6", "7", "8", "9" }

\* The class the pattern '[@_!#$%^&*()<>?/\|}{~:]' denotes.  The literal is
\* not a raw string, but \| is no string escape, so the pattern holds a
\* backslash followed by |, and inside a class that pair is an escaped |:
\* the class holds | and does not hold the backslash.
ClassSpecial ==
    { "@", "_", "!", "#", "$", "%", "^", "&", "*", "(", ")",
      "<", ">", "?", "/", "|", "}", "{", "~", ":" }

\* re.search(<one character class>, s) is not None
search(class, s) == \E i \in 1..Len(s) : s[i] \in class

\* str.lower(), character by character
LowerChar(c) ==
    IF \E i \in 1..Len(UpperLetters) : UpperLetters[i] = c
    THEN LowerLetters[CHOOSE i \in 1..Len(UpperLetters) : UpperLetters[i] = c]
    ELSE c

lower(s) == [ i \in 1..Len(s) |-> LowerChar(s[i]) ]

\* Python's  sub in s  on strings; the empty string is in every string.
Contains(sub, s) ==
    \E k \in 0..(Len(s) - Len(sub)) : SubSeq(s, k + 1, k + Len(sub)) = sub

\* None, as cleaned_data.get() returns it for a missing key.  No string is
\* equal to it: its element is not a character.
None == << "None" >>

Get(cd, key) == IF key \in DOMAIN cd THEN cd[key] ELSE None

\* The 14 of  len(new_password) < 14
MinLength == 14

-----------------------------------------------------------------------------
(* Messages *)

MsgRequired == "This field is required."
MsgIncorrect == "Your current password was entered incorrectly."
MsgReuse == "Password must not be the same as the current password."
MsgLength == "Minimum password length of 14 characters."
MsgCase == "Password must use of both uppercase and lowercase letters."
MsgDigit == "Password must include of one or more numerical digits."
MsgSpecial == "Password must include of special characters, such as @, #, $."
MsgIdentity == "Password cannot contain the username or parts of the user's full name, such as his first name."
MsgConfirm == "Please enter same password as new password."

-----------------------------------------------------------------------------
(* The clean_<field> hooks.  Each yields whether it raised ValidationError, *)
(* the value it returned, the messages it raised with, and self.user as it  *)
(* leaves it.                                                               *)

Returned(value, u) ==
    [raised |-> FALSE, value |-> value, errors |-> << >>, user |-> u]

Raised(messages, u) ==
    [raised |-> TRUE, value |-> None, errors |-> messages, user |-> u]

\* self.user.check_password(raw): the raw password is the one whose hash
\* the user record stores.
check_password(u, raw) == raw = u.password

clean_current_password(cd, u) ==
    LET current_password == Get(cd, "current_password")
    IN  IF ~ check_password(u, current_password)
        THEN Raised(<< MsgIncorrect >>, u)
        ELSE Returned(current_password, u)

\* As SameAsCurrent, with the comparison inverted.
SameAsCurrent_Inverted(current_password, new_password) ==
    current_password # None /\ current_password # new_password

\* current_password is not None and current_password == new_password
SameAsCurrent(current_password, new_password) ==
    current_password # None /\ current_password = new_password

\* As TooShort, off by one.
TooShort_OffByOne(new_password) == Len(new_password) <= MinLength

\* len(new_password) < 14
TooShort(new_password) == Len(new_password) < MinLength

\* re.search(r'[A-Z]', ...) is None or re.search(r'[a-z]', ...) is None
NotMixedCase(new_password) ==
    ~ search(ClassAZUpper, new_password) \/ ~ search(ClassAZLower, new_password)

\* re.search(r'[0-9]', new_password) is None
NoDigit(new_password) == ~ search(ClassDigit, new_password)

\* re.search('[@_!#$%^&*()<>?/\|}{~:]', new_password) is None
NoSpecial(new_password) == ~ search(ClassSpecial, new_password)

\* As ContainsIdentity, without the lower() calls.
ContainsIdentity_CaseSensitive(u, new_password) ==
    \/ Contains(u.first_name, new_password)
    \/ Contains(u.last_name, new_password)
    \/ Contains(u.username, new_password)

\* The three  x.lower() in new_password.lower()  tests.
ContainsIdentity(u, new_password) ==
    \/ Contains(lower(u.first_name), lower(new_password))
    \/ Contains(lower(u.last_name), lower(new_password))
    \/ Contains(lower(u.username), lower(new_password))

\* The errors list as the six appends build it.
PolicyErrors(cd, u) ==
    LET current_password == Get(cd, "current_password")
        new_password == Get(cd, "new_password")
        e0 == << >>
        e1 == IF SameAsCurrent(current_password, new_password)
              THEN Append(e0, MsgReuse) ELSE e0
        e2 == IF TooShort(new_password)
              THEN Append(e1, MsgLength) ELSE e1
        e3 == IF NotMixedCase(new_password)
              THEN Append(e2, MsgCase) ELSE e2
        e4 == IF NoDigit(new_password)
              THEN Append(e3, MsgDigit) ELSE e3
        e5 == IF NoSpecial(new_password)
              THEN Append(e4, MsgSpecial) ELSE e4
        e6 == IF ContainsIdentity(u, new_password)
              THEN Append(e5, MsgIdentity) ELSE e5
    IN  e6

\* As clean_new_password, but lower-casing the user's first name in place.
clean_new_password_LowersInPlace(cd, u) ==
    LET lowered == [u EXCEPT !.first_name = lower(u.first_name)]
    IN  IF PolicyErrors(cd, u) # << >>
        THEN Raised(PolicyErrors(cd, u), lowered)
        ELSE Returned(Get(cd, "new_password"), lowered)

clean_new_password(cd, u) ==
    IF PolicyErrors(cd, u) # << >>
    THEN Raised(PolicyErrors(cd, u), u)
    ELSE Returned(Get(cd, "new_password"), u)

\* As clean_confirm_password, comparing without regard to case.
clean_confirm_password_IgnoresCase(cd, u) ==
    LET new_password == Get(cd, "new_password")
        confirm_password == Get(cd, "confirm_password")
    IN  IF new_password # None /\ lower(new_password) # lower(confirm_password)
        THEN Raised(<< MsgConfirm >>, u)
        ELSE Returned(confirm_password, u)

\* As clean_confirm_password, without the  is not None  guard.
clean_confirm_password_NoGuard(cd, u) ==
    LET new_password == Get(cd, "new_password")
        confirm_password == Get(cd, "confirm_password")
    IN  IF new_password # confirm_password
        THEN Raised(<< MsgConfirm >>, u)
        ELSE Returned(confirm_password, u)

clean_confirm_password(cd, u) ==
    LET new_password == Get(cd, "new_password")
        confirm_password == Get(cd, "confirm_password")
    IN  IF new_password # None /\ new_password # confirm_password
        THEN Raised(<< MsgConfirm >>, u)
        ELSE Returned(confirm_password, u)

-----------------------------------------------------------------------------
(* The form: cleaned_data and errors as the field-cleaning loop keeps them *)

Fields == << "current_password", "new_password", "confirm_password" >>

FieldNames == { Fields[i] : i \in 1..Len(Fields) }

EmptyDict == [ k \in {} |-> << >> ]

NoErrors == [ f \in FieldNames |-> << >> ]

Put(cd, key, value) ==
    [ k \in DOMAIN cd \cup {key} |-> IF k = key THEN value ELSE cd[k] ]

Del(cd, key) == [ k \in DOMAIN cd \ {key} |-> cd[k] ]

\* getattr(self, 'clean_%s' % name)()
Hook(name, cd, u) ==
    CASE name = "current_password" -> clean_current_password(cd, u)
      [] name = "new_password" -> clean_new_password(cd, u)
      [] name = "confirm_password" -> clean_confirm_password(cd, u)

\* One round of the loop over the fields.  A required CharField rejects the
\* empty value before the hook runs; otherwise the value is stored, the hook
\* runs on the form, and its result or its ValidationError is recorded.
CleanField(name, next) ==
    /\ pc = name
    /\ IF data[name] = << >>
       THEN /\ errors' = [errors EXCEPT ![name] = << MsgRequired >>]
            /\ cleaned_data' = Del(cleaned_data, name)
            /\ user' = user
       ELSE LET cd1 == Put(cleaned_data, name, data[name])
                r == Hook(name, cd1, user)
            IN  /\ IF r.raised
                   THEN /\ errors' = [errors EXCEPT ![name] = r.errors]
                        /\ cleaned_data' = Del(cd1, name)
                   ELSE /\ errors' = errors
                        /\ cleaned_data' = Put(cd1, name, r.value)
                /\ user' = r.user
    /\ pc' = next
    /\ UNCHANGED << data, runs, prev >>

CleanCurrentPassword ==
    CleanField("current_password", "new_password")

CleanNewPassword ==
    CleanField("new_password", "confirm_password")

CleanConfirmPassword ==
    CleanField("confirm_password", "done")

Outcome == [errors |-> errors, cleaned_data |-> cleaned_data]

\* ChangePasswordForm(user, data) once more for the same submission.
NewForm ==
    /\ pc = "done"
    /\ runs < MaxRuns
    /\ prev' = Outcome
    /\ cleaned_data' = EmptyDict
    /\ errors' = NoErrors
    /\ pc' = "current_password"
    /\ runs' = runs + 1
    /\ UNCHANGED << user, data >>

-----------------------------------------------------------------------------
(* The submissions explored *)

Str_oldpass1 == << "o", "l", "d", "p", "a", "s", "s", "1" >>
Str_Passw0rd == << "P", "a", "s", "s", "w", "0", "r", "d", "!", "2", "3", "4", "5", "6" >>
Str_NewPassword == << "N", "e", "w", "P", "a", "s", "s", "w", "o", "r", "d", "1", "2", "3", "!" >>
Str_johndoe == << "j", "o", "h", "n", "d", "o", "e", "1", "2", "3", "4", "5", "!", "A" >>
Str_GoodPassw0rd1 == << "G", "o", "o", "d", "P", "a", "s", "s", "w", "0", "r", "d", "!", "1" >>
Str_GoodPassw0rd2 == << "G", "o", "o", "d", "P", "a", "s", "s", "w", "0", "r", "d", "!", "2" >>

User(first, last, name, password) ==
    [first_name |-> first, last_name |-> last, username |-> name,
     password |-> password]

\* first_name and last_name may be blank (they are right after sign-up);
\* the username is never empty.
Identities ==
    { << << "J", "o", "h", "n" >>, << "D", "o", "e" >>, << "j", "d", "o", "e" >> >>,
      << << >>, << >>, << "j", "d", "o", "e" >> >>,
      << << >>, << "D", "o", "e" >>, << "j", "d", "o", "e" >> >>,
      << << "J", "o", "h", "n" >>, << >>, << "j", "d", "o", "e" >> >>,
      << << "J", "O", "H", "N" >>, << "D", "O", "E" >>, << "J", "D", "o", "e" >> >> }

\* One character of each class the policy asks for, and letters that are
\* upper and lower case outside A-Z and a-z.
ClassReps == << "Q", "q", "7", "#", "É", "é" >>

Masks ==
    SUBSET {"Q", "q", "7", "#"}
      \cup { {"É", "q", "7", "#"}, {"Q", "é", "7", "#"}, {"É", "é", "7", "#"} }

Core(mask) == SelectSeq(ClassReps, LAMBDA c : c \in mask)

\* A character of no class, to fill a password up to a length.
PadChar == "-"

Pad(s, n) == s \o [ i \in 1..(n - Len(s)) |-> PadChar ]

Lengths == (MinLength - Slack)..(MinLength + Slack)

ClassPasswords ==
    { Core(m) : m \in Masks } \cup { Pad(Core(m), n) : m \in Masks, n \in Lengths }

\* The printable ASCII characters (all but the grave accent, which a
\* string of this language cannot hold) and two letters outside ASCII.
ProbeChars ==
    <<
       "0", "1", "2", "3", "4", "5", "6", "7", "8", "9", "a", "b", "c",
       "d", "e", "f", "g", "h", "i", "j", "k", "l", "m", "n", "o", "p",
       "q", "r", "s", "t", "u", "v", "w", "x", "y", "z", "A", "B", "C",
       "D", "E", "F", "G", "H", "I", "J", "K", "L", "M", "N", "O", "P",
       "Q", "R", "S", "T", "U", "V", "W", "X", "Y", "Z", "!", "\"", "#",
       "$", "%", "&", "'", "(", ")", "*", "+", ",", "-", ".", "/", ":",
       ";", "<", "=", ">", "?", "@", "[", "\\", "]", "^", "_", "{", "|",
       "}", "~", " ",
       "É", "é" >>

\* An otherwise compliant password of MinLength characters around one probed
\* character.
ProbePasswords ==
    { Pad(<< "Q", "q", "7", ProbeChars[i] >>, MinLength) : i \in 1..Len(ProbeChars) }

NameParts ==
    { << "j", "o", "h", "n" >>, << "J", "O", "H", "N" >>, << "j", "O", "h", "N" >>, << "d", "o", "e" >>,
      << "D", "O", "E" >>, << "j", "d", "o", "e" >>, << "J", "D", "O", "E" >>, << "j", "o", "h" >>,
      << "j", "d", "o" >> }

IdentityPasswords ==
    { Pad(part \o << "Q", "q", "7", "#" >>, MinLength) : part \in NameParts }
      \cup { Str_johndoe, Str_NewPassword }

\* The confirmations tried for a new password: none, the same, the same
\* in lower case, one character more, and the last character changed.
Confirmations(new) ==
    { << >>, new, lower(new), new \o << "2" >> }
      \cup { [new EXCEPT ![Len(new)] = "2"] : x \in { y \in {1} : new # << >> } }

Submission(current, new, confirm) ==
    [current_password |-> current, new_password |-> new,
     confirm_password |-> confirm]

Scenario(id, password, current, new, confirm) ==
    [user |-> User(id[1], id[2], id[3], password),
     data |-> Submission(current, new, confirm)]

\* The identities the class passwords are tried with: full, and blank names.
MainIdentities == { id \in Identities : id[3] = << "j", "d", "o", "e" >> /\ id[1] = id[2] }
                      \cup { id \in Identities : id[1] = << "J", "o", "h", "n" >> /\ id[2] = << "D", "o", "e" >> }

Scenarios ==
    { Scenario(id, password, current, new, confirm) :
          id \in MainIdentities,
          password \in { Str_oldpass1 },
          current \in { << >>, Str_oldpass1, Str_Passw0rd },
          new \in ClassPasswords \cup { Str_oldpass1, Str_Passw0rd },
          confirm \in { << >>, Str_Passw0rd } }
    \cup
    UNION { { Scenario(id, password, new, new, confirm) :
                  id \in MainIdentities,
                  password \in { Str_oldpass1, new },
                  confirm \in Confirmations(new) } :
            new \in (ClassPasswords \ { << >> }) \cup { Str_Passw0rd } }
    \cup
    UNION { { Scenario(id, Str_oldpass1, Str_oldpass1, new, confirm) :
                  id \in MainIdentities,
                  confirm \in Confirmations(new) } :
            new \in ClassPasswords \cup ProbePasswords \cup { Str_GoodPassw0rd1 } }
    \cup
    { Scenario(id, Str_oldpass1, current, new, new) :
          id \in Identities,
          current \in { Str_oldpass1, Str_Passw0rd },
          new \in IdentityPasswords }

-----------------------------------------------------------------------------
(* The state machine *)

\* ChangePasswordForm(user, data): __init__ keeps the user; nothing is
\* cleaned yet.
Init ==
    /\ \E sc \in Scenarios : user = sc.user /\ data = sc.data
    /\ cleaned_data = EmptyDict
    /\ errors = NoErrors
    /\ pc = "current_password"
    /\ runs = 1
    /\ prev = [errors |-> NoErrors, cleaned_data |-> EmptyDict]

Next ==
    \/ CleanCurrentPassword
    \/ CleanNewPassword
    \/ CleanConfirmPassword
    \/ NewForm

Spec == Init /\ [][Next]_vars

-----------------------------------------------------------------------------
(* What the claims speak of *)

\* The cleaning loop has passed the new_password field.
AfterNew == pc \in { "confirm_password", "done" }

\* clean_new_password was called: the field was not rejected as empty.
PolicyRan == AfterNew /\ data.new_password # << >>

Finished == pc = "done"

Accepted == Finished /\ \A f \in FieldNames : errors[f] = << >>

Reported(msg, f) == \E i \in 1..Len(errors[f]) : errors[f][i] = msg

Count(msg, f) == Cardinality({ i \in 1..Len(errors[f]) : errors[f][i] = msg })

\* The fixed set of special characters, backslash included.
SpecialSet ==
    { "@", "_", "!", "#", "$", "%", "^", "&", "*", "(", ")", "<", ">",
      "?", "/", "\\", "|", "}", "{", "~", ":" }

HasUpper(s) == \E i \in 1..Len(s) : \E k \in 1..26 : s[i] = UpperLetters[k]

HasLower(s) == \E i \in 1..Len(s) : \E k \in 1..26 : s[i] = LowerLetters[k]

HasDigit(s) == \E i \in 1..Len(s) : s[i] \in ClassDigit

HasSpecial(s) == \E i \in 1..Len(s) : s[i] \in SpecialSet

SameIgnoringCase(a, b) ==
    Len(a) = Len(b) /\ \A i \in 1..Len(a) : LowerChar(a[i]) = LowerChar(b[i])

\* Some substring of s, the empty one included, is sub up to case.
HoldsName(sub, s) ==
    \E i \in 1..(Len(s) + 1) : \E j \in (i - 1)..Len(s) :
        SameIgnoringCase(SubSeq(s, i, j), sub)

HoldsAnyName(u, s) ==
    HoldsName(u.first_name, s) \/ HoldsName(u.last_name, s) \/ HoldsName(u.username, s)

\* As HoldsAnyName, over the identity fields that are not empty.
HoldsNonEmptyName(u, s) ==
    \/ u.first_name # << >> /\ HoldsName(u.first_name, s)
    \/ u.last_name # << >> /\ HoldsName(u.last_name, s)
    \/ u.username # << >> /\ HoldsName(u.username, s)

JohnDoe(u) ==
    /\ u.first_name = << "J", "o", "h", "n" >>
    /\ u.last_name = << "D", "o", "e" >>
    /\ u.username = << "j", "d", "o", "e" >>

\* The messages of the rules that fail, in the order of the rules; the
\* rules as section 4.1 states them (the special characters with the
\* backslash, the identity fields that are not empty), on what
\* clean_new_password is given.
RuleMessages == << MsgReuse, MsgLength, MsgCase, MsgDigit, MsgSpecial, MsgIdentity >>

RuleFails(msg, current, new, u) ==
    CASE msg = MsgReuse -> current = new
      [] msg = MsgLength -> Len(new) < 14
      [] msg = MsgCase -> ~ (HasUpper(new) /\ HasLower(new))
      [] msg = MsgDigit -> ~ HasDigit(new)
      [] msg = MsgSpecial -> ~ HasSpecial(new)
      [] msg = MsgIdentity -> HoldsNonEmptyName(u, new)

Violations(current, new, u) ==
    SelectSeq(RuleMessages, LAMBDA msg : RuleFails(msg, current, new, u))

NoRuleViolated(current, new, u) ==
    /\ current # new
    /\ Len(new) >= 14
    /\ HasUpper(new) /\ HasLower(new)
    /\ HasDigit(new)
    /\ HasSpecial(new)
    /\ ~ HoldsNonEmptyName(u, new)

-----------------------------------------------------------------------------
(* The claims *)

\* C1: a submission is accepted (no field reports an error) only if
\* new_password differs from current_password, has 14 or more characters,
\* an ASCII upper-case and an ASCII lower-case letter, an ASCII digit and a
\* special character, holds none of first name, last name and username up
\* to case, and confirm_password is new_password exactly.
AcceptedOnlyIfPolicyAndConfirm ==
    Accepted =>
        /\ data.new_password # data.current_password
        /\ Len(data.new_password) >= 14
        /\ HasUpper(data.new_password) /\ HasLower(data.new_password)
        /\ HasDigit(data.new_password)
        /\ HasSpecial(data.new_password)
        /\ ~ HoldsAnyName(user, data.new_password)
        /\ data.confirm_password = data.new_password

AcceptedReached ==
    /\ Accepted
    /\ data.new_password = Str_NewPassword
    /\ cleaned_data = data

\* C2 as stated: whenever new_password equals current_password, the
\* new_password field fails and reports the non-reuse violation, whether or
\* not current_password passed its own check.
ReuseAlwaysReported ==
    (AfterNew /\ data.new_password = data.current_password) =>
        /\ "new_password" \notin DOMAIN cleaned_data
        /\ Reported(MsgReuse, "new_password")

\* C2 amended: whenever new_password equals a current_password that passed
\* the current-password check, the new_password field fails and reports the
\* non-reuse violation, whatever else holds of the password.
ReuseReportedAfterValidCurrent ==
    (AfterNew /\ data.new_password = data.current_password
       /\ "current_password" \in DOMAIN cleaned_data) =>
        /\ "new_password" \notin DOMAIN cleaned_data
        /\ Reported(MsgReuse, "new_password")

\* A compliant password that is the user's current one fails for reuse alone.
ReuseReached ==
    /\ Finished
    /\ data.new_password = Str_Passw0rd
    /\ data.current_password = Str_Passw0rd
    /\ "current_password" \in DOMAIN cleaned_data
    /\ errors["new_password"] = << MsgReuse >>

\* C3: when new_password holds none of the user's non-empty identity
\* fields up to case, clean_new_password does not report the
\* identity-substring violation, also when identity fields are empty.
EmptyIdentityNeverMatches ==
    (PolicyRan /\ ~ HoldsNonEmptyName(user, data.new_password)) =>
        ~ Reported(MsgIdentity, "new_password")

\* C4 as stated: whenever confirm_password differs from new_password, the
\* confirm_password field fails with the one mismatch violation, whether
\* new_password passed the policy or failed it, and the mismatch is never
\* among the violations of new_password.
MismatchAlwaysReported ==
    (Finished /\ data.confirm_password # data.new_password) =>
        /\ errors["confirm_password"] = << MsgConfirm >>
        /\ ~ Reported(MsgConfirm, "new_password")

\* C4 amended: whenever new_password passed the policy and confirm_password
\* differs from it, the confirm_password field fails with one violation of
\* its own (the mismatch; the required-field message when confirm_password
\* is empty); when new_password did not pass, a non-empty confirm_password
\* is not checked against it and reports nothing; the mismatch is never
\* among the violations of new_password.
MismatchReportedAfterValidNew ==
    /\ (Finished /\ "new_password" \in DOMAIN cleaned_data
          /\ data.confirm_password # data.new_password) =>
            /\ errors["confirm_password"] =
                  << IF data.confirm_password = << >> THEN MsgRequired ELSE MsgConfirm >>
            /\ errors["new_password"] = << >>
    /\ (Finished /\ "new_password" \notin DOMAIN cleaned_data
          /\ data.confirm_password # << >>) =>
            errors["confirm_password"] = << >>
    /\ ~ Reported(MsgConfirm, "new_password")

MismatchReached ==
    /\ Finished
    /\ data.new_password = Str_GoodPassw0rd1
    /\ data.confirm_password = Str_GoodPassw0rd2
    /\ errors["new_password"] = << >>
    /\ errors["confirm_password"] = << MsgConfirm >>

\* C5: the violations clean_new_password reports are one message for each
\* rule that fails and none for a rule that passes, in the order non-reuse,
\* length, case mixing, digit, special character, identity substring.
OneMessagePerFailingRule ==
    PolicyRan =>
        errors["new_password"] =
            Violations(Get(cleaned_data, "current_password"), data.new_password, user)

\* C6 as stated: every new_password of fewer than 14 characters, the empty
\* one included, fails with the minimum-length violation among the
\* violations; none of 14 or more characters reports it.
ShortAlwaysReported ==
    AfterNew =>
        /\ Len(data.new_password) < 14 =>
              /\ "new_password" \notin DOMAIN cleaned_data
              /\ Reported(MsgLength, "new_password")
        /\ Len(data.new_password) >= 14 => ~ Reported(MsgLength, "new_password")

\* C6 amended: every non-empty new_password of fewer than 14 characters
\* fails with the minimum-length violation among the violations; the empty
\* new_password fails as a missing required field, without the
\* minimum-length violation; none of 14 or more characters reports it.
ShortReportedUnlessEmpty ==
    AfterNew =>
        /\ (data.new_password # << >> /\ Len(data.new_password) < 14) =>
              /\ "new_password" \notin DOMAIN cleaned_data
              /\ Reported(MsgLength, "new_password")
        /\ data.new_password = << >> => errors["new_password"] = << MsgRequired >>
        /\ Len(data.new_password) >= 14 => ~ Reported(MsgLength, "new_password")

\* 13 characters of every class fail for the length alone.
ShortReached ==
    /\ Finished
    /\ Len(data.new_password) = 13
    /\ errors["new_password"] = << MsgLength >>

\* C7: when no policy rule is violated, clean_new_password succeeds and
\* returns new_password as submitted; "NewPassword123!" for John / Doe /
\* jdoe with the current password "oldpass1" is accepted.
CompliantPasswordReturned ==
    /\ (PolicyRan /\ NoRuleViolated(Get(cleaned_data, "current_password"),
                                      data.new_password, user)) =>
            /\ errors["new_password"] = << >>
            /\ Get(cleaned_data, "new_password") = data.new_password
    /\ (AfterNew /\ JohnDoe(user) /\ data.new_password = Str_NewPassword
          /\ data.current_password = Str_oldpass1) =>
            /\ errors["new_password"] = << >>
            /\ Get(cleaned_data, "new_password") = Str_NewPassword

\* The step of a hook changes its own field's entries only.
OtherFieldsKept(name) ==
    \A f \in FieldNames \ {name} :
        /\ (f \in DOMAIN cleaned_data') = (f \in DOMAIN cleaned_data)
        /\ f \in DOMAIN cleaned_data => cleaned_data'[f] = cleaned_data[f]
        /\ errors'[f] = errors[f]

HookKeepsFrame ==
    pc \in { "new_password", "confirm_password" } =>
        (user' = user /\ data' = data /\ OtherFieldsKept(pc))

SpecialExactlyTheFixedSet ==
    PolicyRan =>
        (~ Reported(MsgSpecial, "new_password")) = HasSpecial(data.new_password)

=============================================================================
